---------------------------- MODULE Spec2Model ----------------------------
(***************************************************************************)
(* Model of nixops/backends/__init__.py: the MachineState base class (the  *)
(* machine lifecycle, health check, key upload, closure copy) and the two  *)
(* backend registry functions create_definition / create_state.            *)
(*                                                                         *)
(* Every operation of MachineState is one action.  The remote side (SSH    *)
(* commands, scp, nix-copy-closure, the TCP port waits) is the environment:*)
(* each remote step an operation performs is appended to `log`, and its    *)
(* outcome (success, connection failure, command failure) is chosen        *)
(* nondeterministically.                                                   *)
(***************************************************************************)
EXTENDS Integers, Sequences, FiniteSets, TLC

VARIABLES
    state,              \* self.state (persisted lifecycle state)
    sshPinged,          \* self.ssh_pinged (persisted)
    sshPingedThisTime,  \* self._ssh_pinged_this_time (transient)
    storeKeysAttr,      \* persisted row of "storeKeysOnMachine": unset/true/false
    keys,               \* self.keys: names of the configured secrets
    publicVpnKey,       \* self.public_vpn_key
    units,              \* target side: what "systemctl --all --full --no-legend" prints
    log,                \* remote/local steps performed by the last operation, in order
    last,               \* the last operation: name, argument, outcome, state at the call
    res,                \* the CheckResult object of the last check()
    instances,          \* the machines of one deployment, each a MachineState
    tempdir,            \* depl.tempdir: the files of the deployment's scratch directory
    targets             \* the /run/keys directory of each machine of the deployment

\* what a deployment's workers share and reach
deployment == << instances, tempdir, targets >>

vars == << state, sshPinged, sshPingedThisTime, storeKeysAttr, keys,
           publicVpnKey, units, log, last, res, instances, tempdir, targets >>

-----------------------------------------------------------------------------
(* Bounds of the model *)

\* largest number of unit lines in one systemctl output
MaxLines == 2

\* number of secrets that can be configured
MaxKeys == 1

\* number of secrets of the machine whose key upload passes are examined alone
MaxPassKeys == 2

-----------------------------------------------------------------------------
(* Lifecycle states (nixops.resources.ResourceState) *)

MISSING == "MISSING"
STARTING == "STARTING"
UP == "UP"
STOPPED == "STOPPED"
UNREACHABLE == "UNREACHABLE"
RESCUE == "RESCUE"

States == {MISSING, STARTING, UP, STOPPED, UNREACHABLE, RESCUE}

KeyNames == {ToString(n) : n \in 1..MaxKeys}

\* outcome of an operation: "ok" (returned) or the exception it raised
Raised == {"SSHConnectionFailed", "SSHCommandFailed", "AssertionError",
           "CommandFailed", "Exception", "UnknownBackend"}

-----------------------------------------------------------------------------
(* Persisted attributes and their defaults *)

\* store_keys_on_machine = attr_property("storeKeysOnMachine", True, bool)
store_keys_on_machine(attr) ==
    IF attr = "unset" THEN TRUE ELSE attr = "true"

\* the machine as an operation finds it when it is called
Pre ==
    [state |-> state, sshPinged |-> sshPinged,
     thisTime |-> sshPingedThisTime,
     store |-> store_keys_on_machine(storeKeysAttr),
     keys |-> keys, vpn |-> publicVpnKey]

\* the record of an operation: made and msg are the instance a registry
\* function returned and the message of the error it raised
Call(op, arg, outcome) ==
    [op |-> op, arg |-> arg, outcome |-> outcome, made |-> "None", msg |-> <<>>,
     pre |-> Pre]

-----------------------------------------------------------------------------
(* Remote commands.  A command text is a sequence of pieces; concatenation *)
(* of texts is concatenation of sequences.                                 *)

LocalePrefix == "export LANG= LC_ALL= LC_TIME=; "

\* one step of an operation: kind "run" (a command handed to the Remote-Command
\* capability), "upload" (scp), "copy" (nix-copy-closure), "port" (a wait for the
\* SSH port), "reset" (ssh.reset()), "local" (a step on the local machine),
\* "warn" (self.warn).  st is self.state when the step is made; check is the
\* check= argument of a command; status is how the step ended.
Event(kind, cmd, arg, st, check) ==
    [kind |-> kind, cmd |-> cmd, arg |-> arg, st |-> st, check |-> check,
     status |-> "ok"]

\* self.ssh.run_command(command, flags, check=...): the Remote-Command capability
ssh_run_command(st, command, arg, check) == Event("run", command, arg, st, check)

\* MachineState.run_command
run_command(st, command, arg, check) ==
    ssh_run_command(st,
        IF st = RESCUE THEN <<LocalePrefix>> \o command ELSE command,
        arg, check)

\* a command text without the locale prefix run_command puts before it
Bare(cmd) ==
    IF cmd # <<>> /\ Head(cmd) = LocalePrefix THEN Tail(cmd) ELSE cmd

\* nixops.util.wait_for_tcp_port(host, port, open=...)
wait_for_tcp_port(st, open) ==
    Event("port", <<>>, IF open THEN "open" ELSE "closed", st, FALSE)

\* the exceptions a step can raise: a command raises SSHConnectionFailed, and
\* SSHCommandFailed when its exit status is checked; _logged_exec (scp,
\* nix-copy-closure) raises CommandFailed
Exceptions(e) ==
    IF e.kind = "run"
    THEN IF e.check THEN {"SSHConnectionFailed", "SSHCommandFailed"}
         ELSE {"SSHConnectionFailed"}
    ELSE IF e.kind \in {"upload", "copy"} THEN {"CommandFailed"}
    ELSE {}

\* the ways a sequence of steps can run: to its end, or up to the first step
\* that raises
Runs(plan) ==
    {[log |-> plan, outcome |-> "ok"]}
    \cup {[log |-> [SubSeq(plan, 1, f) EXCEPT ![f].status = x], outcome |-> x] :
              <<f, x>> \in {fx \in (1..Len(plan)) \X Raised :
                              fx[2] \in Exceptions(plan[fx[1]])}}

-----------------------------------------------------------------------------
(* Health check: the systemctl output and its parsing (_check, lines 116-136). *)
(* A text is a sequence of atoms: an atom is one of the literals the regular   *)
(* expressions look for (" ", ".", "mount", "failed", "activating", "inactive",*)
(* "sys-", "dev-", the line break) or a run of other characters.               *)

SP == " "
NL == "\n"
DOT == "."

\* out.split('\n'): the pieces between line breaks (a text ending in a line
\* break yields a last, empty piece)
RECURSIVE SplitLines(_, _)
SplitLines(text, cur) ==
    IF text = <<>> THEN <<cur>>
    ELSE IF Head(text) = NL THEN <<cur>> \o SplitLines(Tail(text), <<>>)
    ELSE SplitLines(Tail(text), Append(cur, Head(text)))

\* index of the first atom of l equal to a, or 0
FirstIndex(l, a) ==
    IF \E i \in 1..Len(l) : l[i] = a
    THEN CHOOSE i \in 1..Len(l) : l[i] = a /\ \A j \in 1..(i-1) : l[j] # a
    ELSE 0

\* whether l[from..] matches ".* word .*"
ContainsWord(l, from, word) ==
    \E j \in from..(Len(l) - 2) :
        l[j] = SP /\ l[j+1] = word /\ l[j+2] = SP

\* re.match("^([^ ]+) .* word .*$", l): group(1), or <<>> when no match
MatchUnit(l, word) ==
    LET i == FirstIndex(l, SP) IN
    IF i >= 2 /\ ContainsWord(l, i + 1, word)
    THEN SubSeq(l, 1, i - 1)
    ELSE <<>>

\* re.match("^([^\.]+\.mount) .* inactive .*$", l): group(1), or <<>>
MatchMount(l) ==
    LET d == FirstIndex(l, DOT) IN
    IF d >= 2 /\ d + 2 <= Len(l) /\ l[d+1] = "mount" /\ l[d+2] = SP
       /\ ContainsWord(l, d + 3, "inactive")
    THEN SubSeq(l, 1, d + 1)
    ELSE <<>>

\* match.group(1).startswith("sys-") or .startswith("dev-")
ReservedPrefix(name) == name # <<>> /\ Head(name) \in {"sys-", "dev-"}

\* what one line adds to res.failed_units (lines 122-123 and 134-136)
LineFailed(l) ==
    (IF MatchUnit(l, "failed") # <<>> THEN <<MatchUnit(l, "failed")>> ELSE <<>>)
    \o (IF MatchMount(l) # <<>> /\ ~ReservedPrefix(MatchMount(l))
        THEN <<MatchMount(l)>> ELSE <<>>)

\* what one line adds to res.in_progress_units (lines 126-127)
LineInProgress(l) ==
    IF MatchUnit(l, "activating") # <<>>
    THEN <<MatchUnit(l, "activating")>> ELSE <<>>

\* the loop "for l in out" of _check
RECURSIVE ParseUnits(_)
ParseUnits(lines) ==
    IF lines = <<>> THEN [failed |-> <<>>, inprog |-> <<>>]
    ELSE LET rest == ParseUnits(Tail(lines)) IN
         [failed |-> LineFailed(Head(lines)) \o rest.failed,
          inprog |-> LineInProgress(Head(lines)) \o rest.inprog]

-----------------------------------------------------------------------------
(* The systemctl outputs the model draws from: lines of the form           *)
(* "UNIT LOAD ACTIVE SUB DESCRIPTION", each ended by a line break.         *)

UnitNames ==
    { <<"foo", DOT, "service">>,
      <<"bar", DOT, "mount">>,
      <<"sys-", "kernel-config", DOT, "mount">>,
      <<"dev-", "hugepages", DOT, "mount">>,
      <<"mnt-foo", DOT, "bar", DOT, "mount">> }

StatusColumns ==
    { <<"loaded", "active", "running", "desc">>,
      <<"loaded", "active", "failed", "failed">>,
      <<"loaded", "failed", "failed", "desc">>,
      <<"loaded", "activating", "start", "start">>,
      <<"loaded", "active", "inactive", "dead">>,
      <<"loaded", "inactive", "dead", "desc">> }

RECURSIVE Columns(_)
Columns(cols) ==
    IF cols = <<>> THEN <<>> ELSE <<SP, Head(cols)>> \o Columns(Tail(cols))

UnitLine(name, cols) == name \o Columns(cols)

UnitLines == {UnitLine(n, c) : n \in UnitNames, c \in StatusColumns}

RECURSIVE Text(_)
Text(lines) ==
    IF lines = <<>> THEN <<>> ELSE Head(lines) \o <<NL>> \o Text(Tail(lines))

AllOutputs ==
    {Text(ls) : ls \in UNION {[1..n -> UnitLines] : n \in 0..MaxLines}}

\* the four lines of the documentation's example
SampleOutputs ==
    { Text(<< UnitLine(<<"foo", DOT, "service">>,
                       <<"loaded", "active", "failed", "failed">>),
              UnitLine(<<"bar", DOT, "mount">>,
                       <<"loaded", "active", "inactive", "dead">>),
              UnitLine(<<"sys-", "kernel-config", DOT, "mount">>,
                       <<"loaded", "active", "inactive", "dead">>),
              UnitLine(<<"baz", DOT, "service">>,
                       <<"loaded", "activating", "start", "start">>) >>) }

-----------------------------------------------------------------------------
(* CheckResult *)

\* an optional value: <<>> is None, <<v>> is the value v
None == <<>>
Some(v) == <<v>>

\* CheckResult.__init__ (the fields _check writes)
CheckResult ==
    [is_reachable |-> None, load |-> None,
     failed_units |-> None, in_progress_units |-> None]

-----------------------------------------------------------------------------
(* The operations of MachineState *)

\* MachineState.__init__: a state object is constructed over the persisted row
init ==
    /\ sshPingedThisTime' = FALSE
    /\ log' = <<>>
    /\ last' = Call("__init__", "", "ok")
    /\ res' = CheckResult
    /\ UNCHANGED <<state, sshPinged, storeKeysAttr, keys, publicVpnKey, units, deployment>>

\* set_common_state(defn)
set_common_state ==
    \E store \in BOOLEAN, ks \in SUBSET KeyNames :
        /\ storeKeysAttr' = IF store THEN "true" ELSE "false"
        /\ keys' = ks
        /\ log' = <<>>
        /\ last' = Call("set_common_state", "", "ok")
        /\ res' = CheckResult
        /\ UNCHANGED <<state, sshPinged, sshPingedThisTime, publicVpnKey, units, deployment>>

\* self.name: the name of the machine in its deployment
MachineName == "alpha"

\* the message of an unsupported operation, without the machine's name
WarnTextUnnamed(op, name) == <<"unsupported operation">>

\* the message each unsupported operation formats with self.name
WarnText(op, name) ==
    CASE op = "stop" -> <<"don't know how to stop machine '", name, "'">>
      [] op = "restore" ->
            <<"don't know how to restore disks from backup for machine '", name, "'">>
      [] op = "remove_backup" ->
            <<"don't know how to remove a backup for machine '", name, "'">>
      [] op = "backup" ->
            <<"don't know how to make backup of disks for machine '", name, "'">>
      [] op = "reboot_rescue" ->
            <<"machine '", name, "' doesn't have a rescue system.">>

\* stop, restore, remove_backup, backup, reboot_rescue: self.warn(...)
unsupported ==
    \E op \in {"stop", "restore", "remove_backup", "backup", "reboot_rescue"} :
        /\ log' = << Event("warn", WarnText(op, MachineName), op, state, FALSE) >>
        /\ last' = Call(op, "", "ok")
        /\ res' = CheckResult
        /\ UNCHANGED <<state, sshPinged, sshPingedThisTime, storeKeysAttr, keys,
                       publicVpnKey, units, deployment>>

\* start: pass
start ==
    /\ log' = <<>>
    /\ last' = Call("start", "", "ok")
    /\ res' = CheckResult
    /\ UNCHANGED <<state, sshPinged, sshPingedThisTime, storeKeysAttr, keys,
                   publicVpnKey, units, deployment>>

\* line 107: if self.state == self.UP: self.state = self.UNREACHABLE
CheckFailedStateAlways(s) == UNREACHABLE

CheckFailedStateKeep(s) == s

CheckFailedState(s) == IF s = UP THEN UNREACHABLE ELSE s

\* the load-average query of get_load_avg
LoadAvgQuery(st) == run_command(st, <<"cat /proc/loadavg">>, "", TRUE)

\* the service-manager query of _check
UnitsQuery(st) ==
    run_command(st, <<"systemctl --all --full --no-legend">>, "", TRUE)

\* check() / _check(res), the load-average query failing: get_load_avg
\* swallows both exceptions and returns None
check_unreachable ==
    \E x \in {"SSHConnectionFailed", "SSHCommandFailed"} :
        /\ state' = CheckFailedState(state)
        /\ res' = [CheckResult EXCEPT !.is_reachable = Some(FALSE)]
        /\ log' = << [LoadAvgQuery(state) EXCEPT !.status = x] >>
        /\ last' = Call("check", "", "ok")
        /\ UNCHANGED <<sshPinged, sshPingedThisTime, storeKeysAttr, keys,
                       publicVpnKey, units, deployment>>

\* check(), the load-average query answering fewer than three fields:
\* "assert len(res) >= 3" is not caught
check_malformed ==
    /\ log' = << LoadAvgQuery(state) >>
    /\ last' = Call("check", "", "AssertionError")
    /\ res' = CheckResult
    /\ UNCHANGED <<state, sshPinged, sshPingedThisTime, storeKeysAttr, keys,
                   publicVpnKey, units, deployment>>

\* check(), the load-average query succeeding; the service-manager query
\* that follows is not guarded
check_reachable ==
    \E r \in Runs(<< UnitsQuery(UP) >>) :
        /\ state' = UP
        /\ sshPinged' = TRUE
        /\ sshPingedThisTime' = TRUE
        /\ log' = << LoadAvgQuery(state) >> \o r.log
        /\ last' = Call("check", "", r.outcome)
        /\ res' = IF r.outcome = "ok"
                  THEN LET u == ParseUnits(SplitLines(units, <<>>)) IN
                       [is_reachable |-> Some(TRUE), load |-> Some("avg"),
                        failed_units |-> Some(u.failed),
                        in_progress_units |-> Some(u.inprog)]
                  ELSE [CheckResult EXCEPT !.is_reachable = Some(TRUE),
                                           !.load = Some("avg")]
        /\ UNCHANGED <<storeKeysAttr, keys, publicVpnKey, units, deployment>>

check == check_unreachable \/ check_malformed \/ check_reachable

\* the graceful command in every state
reboot_command_graceful(st) == <<"systemctl reboot">>

\* lines 153-159: the reboot command for the state at the call
reboot_command(st) ==
    IF st = RESCUE THEN <<"(sleep 2; reboot) &">> ELSE <<"systemctl reboot">>

\* lines 160-162 once the command has been sent (its exit status is not
\* checked): the command, then self.state = STARTING, then self.ssh.reset()
RebootSteps(st, exit) ==
    << [run_command(st, reboot_command(st), "", FALSE) EXCEPT !.status = exit],
       Event("reset", <<>>, "", STARTING, FALSE) >>

\* reboot(), the command not reaching the machine
reboot_failed ==
    /\ log' = << [run_command(state, reboot_command(state), "", FALSE)
                    EXCEPT !.status = "SSHConnectionFailed"] >>
    /\ last' = Call("reboot", "", "SSHConnectionFailed")
    /\ res' = CheckResult
    /\ UNCHANGED <<state, sshPinged, sshPingedThisTime, storeKeysAttr, keys,
                   publicVpnKey, units, deployment>>

\* line 161: self.state = self.STARTING
RebootStateUp == UP

RebootState == STARTING

reboot_sent ==
    \E exit \in {"ok", "nonzero"} :
        /\ state' = RebootState
        /\ log' = RebootSteps(state, exit)
        /\ last' = Call("reboot", "", "ok")
        /\ res' = CheckResult
        /\ UNCHANGED <<sshPinged, sshPingedThisTime, storeKeysAttr, keys,
                       publicVpnKey, units, deployment>>

reboot == reboot_failed \/ reboot_sent

\* the orders in which "for k, opts in self.get_keys().items()" can visit ks
Orders(ks) ==
    {o \in [1..Cardinality(ks) -> ks] :
        \A i, j \in 1..Cardinality(ks) : o[i] = o[j] => i = j}

\* one secret, uploaded before the old remote copy is deleted
KeyStepsUploadFirst(st, k) ==
    << Event("local", <<"write tmp">>, k, st, FALSE),
       Event("upload", <<"scp">>, k, st, FALSE),
       run_command(st, <<"rm -f ">>, k, TRUE),
       run_command(st, <<"chown ", " && ", "chmod ">>, k, TRUE),
       Event("local", <<"os.remove tmp">>, k, st, FALSE) >>

\* lines 195-208, one secret
KeySteps(st, k) ==
    << Event("local", <<"write tmp">>, k, st, FALSE),
       run_command(st, <<"rm -f ">>, k, TRUE),
       Event("upload", <<"scp">>, k, st, FALSE),
       run_command(st, <<"chown ", " && ", "chmod ">>, k, TRUE),
       Event("local", <<"os.remove tmp">>, k, st, FALSE) >>

RECURSIVE AllKeySteps(_, _)
AllKeySteps(st, order) ==
    IF order = <<>> THEN <<>>
    ELSE KeySteps(st, Head(order)) \o AllKeySteps(st, Tail(order))

\* lines 185-191: the two early returns of send_keys
SendKeysSkippedNever(st, store) == FALSE

SendKeysSkipped(st, store) == st = RESCUE \/ store

\* send_keys: the steps of one pass
SendKeysSteps(st, store, order) ==
    IF SendKeysSkipped(st, store) THEN <<>>
    ELSE << run_command(st, <<"mkdir -m 0750 -p /run/keys",
                              " && chown root:keys /run/keys">>, "", TRUE) >>
         \o AllKeySteps(st, order)
         \o << run_command(st, <<"touch /run/keys/done">>, "", TRUE) >>

send_keys ==
    \E order \in Orders(keys) :
    \E r \in Runs(SendKeysSteps(state, store_keys_on_machine(storeKeysAttr), order)) :
        /\ log' = r.log
        /\ last' = Call("send_keys", "", r.outcome)
        /\ res' = CheckResult
        /\ UNCHANGED <<state, sshPinged, sshPingedThisTime, storeKeysAttr, keys,
                       publicVpnKey, units, deployment>>

\* reboot_sync(), the reboot command not reaching the machine
reboot_sync_failed ==
    /\ log' = << [run_command(state, reboot_command(state), "", FALSE)
                    EXCEPT !.status = "SSHConnectionFailed"] >>
    /\ last' = Call("reboot_sync", "", "SSHConnectionFailed")
    /\ res' = CheckResult
    /\ UNCHANGED <<state, sshPinged, sshPingedThisTime, storeKeysAttr, keys,
                   publicVpnKey, units, deployment>>

\* lines 168-175: the two port waits, self.state = UP, then send_keys()
RebootSyncWaitNoKeys(store, order) ==
    << wait_for_tcp_port(STARTING, FALSE), wait_for_tcp_port(STARTING, TRUE) >>

RebootSyncWait(store, order) ==
    << wait_for_tcp_port(STARTING, FALSE), wait_for_tcp_port(STARTING, TRUE) >>
    \o SendKeysSteps(UP, store, order)

reboot_sync_sent ==
    \E exit \in {"ok", "nonzero"}, order \in Orders(keys) :
    \E r \in Runs(RebootSyncWait(store_keys_on_machine(storeKeysAttr), order)) :
        /\ state' = UP
        /\ sshPinged' = TRUE
        /\ sshPingedThisTime' = TRUE
        /\ log' = RebootSteps(state, exit) \o r.log
        /\ last' = Call("reboot_sync", "", r.outcome)
        /\ res' = CheckResult
        /\ UNCHANGED <<storeKeysAttr, keys, publicVpnKey, units, deployment>>

reboot_sync == reboot_sync_failed \/ reboot_sync_sent

\* line 246: the early return of wait_for_ssh
WaitSkippedPingedOnly(pinged, thisTime, recheck) == pinged

WaitSkipped(pinged, thisTime, recheck) == pinged /\ (~recheck \/ thisTime)

\* lines 250-251: if self.state != self.RESCUE: self.state = self.UP
WaitStateAlwaysUp(s) == UP

WaitState(s) == IF s # RESCUE THEN UP ELSE s

wait_for_ssh_skipped ==
    \E recheck \in BOOLEAN :
        /\ WaitSkipped(sshPinged, sshPingedThisTime, recheck)
        /\ log' = <<>>
        /\ last' = Call("wait_for_ssh", IF recheck THEN "True" ELSE "False", "ok")
        /\ res' = CheckResult
        /\ UNCHANGED <<state, sshPinged, sshPingedThisTime, storeKeysAttr, keys,
                       publicVpnKey, units, deployment>>

wait_for_ssh_waited ==
    \E recheck \in BOOLEAN :
        /\ ~WaitSkipped(sshPinged, sshPingedThisTime, recheck)
        /\ state' = WaitState(state)
        /\ sshPinged' = TRUE
        /\ sshPingedThisTime' = TRUE
        /\ log' = << wait_for_tcp_port(state, TRUE) >>
        /\ last' = Call("wait_for_ssh", IF recheck THEN "True" ELSE "False", "ok")
        /\ res' = CheckResult
        /\ UNCHANGED <<storeKeysAttr, keys, publicVpnKey, units, deployment>>

wait_for_ssh == wait_for_ssh_skipped \/ wait_for_ssh_waited

\* switch_to_configuration(method, sync, command=None)
switch_to_configuration ==
    \E sync \in BOOLEAN, exit \in {"ok", "nonzero", "SSHConnectionFailed"} :
        /\ log' = << [run_command(state,
                        (IF sync THEN <<>> ELSE <<"NIXOS_NO_SYNC=1 ">>)
                        \o <<"/nix/var/nix/profiles/system/bin/switch-to-configuration",
                             " ", "switch">>, "", FALSE)
                      EXCEPT !.status = exit] >>
        /\ last' = Call("switch_to_configuration", IF sync THEN "True" ELSE "False",
                        IF exit = "SSHConnectionFailed" THEN exit ELSE "ok")
        /\ res' = CheckResult
        /\ UNCHANGED <<state, sshPinged, sshPingedThisTime, storeKeysAttr, keys,
                       publicVpnKey, units, deployment>>

\* lines 305-307: the substituter fetch on the target, sent through
\* ssh.run_command directly
SubstituterFetch(st, exit) ==
    [ssh_run_command(st, <<"nix-store -j 4 -r --ignore-unknown ">>, "", FALSE)
        EXCEPT !.status = exit]

\* lines 312-315: nix-copy-closure --to target path [--gzip]
ClosureCopy(st, fast) ==
    Event("copy", <<"nix-copy-closure">>, IF fast THEN "" ELSE "--gzip", st, FALSE)

\* the steps of copy_closure_to; fast is has_really_fast_connection()
CopyClosureStepsCopyFirst(st, fast, exit) ==
    << ClosureCopy(st, fast) >>
    \o (IF ~fast THEN << SubstituterFetch(st, exit) >> ELSE <<>>)

CopyClosureStepsStopOnExit(st, fast, exit) ==
    IF ~fast /\ exit = "nonzero" THEN << SubstituterFetch(st, exit) >>
    ELSE (IF ~fast THEN << SubstituterFetch(st, exit) >> ELSE <<>>)
         \o << ClosureCopy(st, fast) >>

CopyClosureSteps(st, fast, exit) ==
    (IF ~fast THEN << SubstituterFetch(st, exit) >> ELSE <<>>)
    \o << ClosureCopy(st, fast) >>

\* copy_closure_to(path)
copy_closure_to ==
    \E fast \in BOOLEAN, exit \in {"ok", "nonzero"} :
    \E r \in Runs(CopyClosureSteps(state, fast, exit)) :
        /\ fast => exit = "ok"
        /\ log' = r.log
        /\ last' = Call("copy_closure_to", IF fast THEN "fast" ELSE "slow", r.outcome)
        /\ res' = CheckResult
        /\ UNCHANGED <<state, sshPinged, sshPingedThisTime, storeKeysAttr, keys,
                       publicVpnKey, units, deployment>>

\* the key create_key_pair generates: one publicVpnKey does not hold yet
NewVpnKey(cur) == IF cur = "key1" THEN "key2" ELSE "key1"

VpnKeyTest(st) == run_command(st, <<"test -f /root/.ssh/id_charon_vpn">>, "", TRUE)

VpnKeyUpload(st) ==
    run_command(st, <<"umask 077 && mkdir -p /root/.ssh &&",
                      " cat > /root/.ssh/id_charon_vpn">>, "", FALSE)

\* lines 333-336: public_vpn_key after the upload ended with exit
VpnKeyAfterUploadAlways(cur, exit) == NewVpnKey(cur)

VpnKeyAfterUpload(cur, exit) == IF exit = "ok" THEN NewVpnKey(cur) ELSE cur

\* generate_vpn_key(), the test command not reaching the machine (only
\* SSHCommandFailed is caught)
generate_vpn_key_unreachable ==
    /\ log' = << [VpnKeyTest(state) EXCEPT !.status = "SSHConnectionFailed"] >>
    /\ last' = Call("generate_vpn_key", "", "SSHConnectionFailed")
    /\ res' = CheckResult
    /\ UNCHANGED <<state, sshPinged, sshPingedThisTime, storeKeysAttr, keys,
                   publicVpnKey, units, deployment>>

\* generate_vpn_key(), line 327: the key is recorded and its file exists
generate_vpn_key_present ==
    /\ publicVpnKey # "None"
    /\ log' = << VpnKeyTest(state) >>
    /\ last' = Call("generate_vpn_key", "", "ok")
    /\ res' = CheckResult
    /\ UNCHANGED <<state, sshPinged, sshPingedThisTime, storeKeysAttr, keys,
                   publicVpnKey, units, deployment>>

\* generate_vpn_key(), lines 328-336: a key pair is created and uploaded
generate_vpn_key_upload ==
    \E exists \in BOOLEAN, exit \in {"ok", "nonzero", "SSHConnectionFailed"} :
        /\ publicVpnKey = "None" \/ ~exists
        /\ log' = << [VpnKeyTest(state) EXCEPT
                        !.status = IF exists THEN "ok" ELSE "SSHCommandFailed"],
                     Event("local", <<"create_key_pair">>, "", state, FALSE),
                     Event("local", <<"write id_vpn">>, "", state, FALSE),
                     [VpnKeyUpload(state) EXCEPT !.status = exit] >>
        /\ last' = Call("generate_vpn_key", "",
                        CASE exit = "ok" -> "ok"
                          [] exit = "nonzero" -> "Exception"
                          [] OTHER -> exit)
        /\ publicVpnKey' = VpnKeyAfterUpload(publicVpnKey, exit)
        /\ res' = CheckResult
        /\ UNCHANGED <<state, sshPinged, sshPingedThisTime, storeKeysAttr, keys,
                       units, deployment>>

generate_vpn_key ==
    generate_vpn_key_unreachable \/ generate_vpn_key_present
    \/ generate_vpn_key_upload

-----------------------------------------------------------------------------
(* Backend registry *)

\* lines 418-424
DefinitionClasses ==
    << "NoneDefinition", "VirtualBoxDefinition", "EC2Definition",
       "HetznerDefinition", "GCEDefinition", "LibvirtdDefinition",
       "ContainerDefinition" >>

\* lines 431-454
StateClasses ==
    << "NoneState", "VirtualBoxState", "LibvirtdState", "EC2State", "GCEState",
       "HetznerState", "ContainerState", "EC2KeyPairState", "SSHKeyPairState",
       "SQSQueueState", "IAMRoleState", "S3BucketState",
       "EC2SecurityGroupState", "EC2PlacementGroupState", "EBSVolumeState",
       "ElasticIPState", "GCEDiskState", "GCEImageState", "GCEStaticIPState",
       "GCENetworkState", "GCEHTTPHealthCheckState", "GCETargetPoolState",
       "GCEForwardingRuleState", "GSEBucketState" >>

\* i.get_type() of each variant (the variants live in their own modules)
get_type(cls) ==
    CASE cls \in {"NoneDefinition", "NoneState"} -> "none"
      [] cls \in {"VirtualBoxDefinition", "VirtualBoxState"} -> "virtualbox"
      [] cls \in {"EC2Definition", "EC2State"} -> "ec2"
      [] cls \in {"HetznerDefinition", "HetznerState"} -> "hetzner"
      [] cls \in {"GCEDefinition", "GCEState"} -> "gce"
      [] cls \in {"LibvirtdDefinition", "LibvirtdState"} -> "libvirtd"
      [] cls \in {"ContainerDefinition", "ContainerState"} -> "container"
      [] cls = "EC2KeyPairState" -> "ec2-keypair"
      [] cls = "SSHKeyPairState" -> "ssh-keypair"
      [] cls = "SQSQueueState" -> "sqs-queue"
      [] cls = "IAMRoleState" -> "iam-role"
      [] cls = "S3BucketState" -> "s3-bucket"
      [] cls = "EC2SecurityGroupState" -> "ec2-security-group"
      [] cls = "EC2PlacementGroupState" -> "ec2-placement-group"
      [] cls = "EBSVolumeState" -> "ebs-volume"
      [] cls = "ElasticIPState" -> "elastic-ip"
      [] cls = "GCEDiskState" -> "gce-disk"
      [] cls = "GCEImageState" -> "gce-image"
      [] cls = "GCEStaticIPState" -> "gce-static-ip"
      [] cls = "GCENetworkState" -> "gce-network"
      [] cls = "GCEHTTPHealthCheckState" -> "gce-http-health-check"
      [] cls = "GCETargetPoolState" -> "gce-target-pool"
      [] cls = "GCEForwardingRuleState" -> "gce-forwarding-rule"
      [] cls = "GSEBucketState" -> "gse-bucket"

Range(f) == {f[i] : i \in DOMAIN f}

\* the tags the model asks the registry for: every tag of a variant, and one
\* no variant has
Tags == {get_type(c) : c \in Range(DefinitionClasses) \cup Range(StateClasses)}
        \cup {"bogus"}

\* "for i in [...]: if tag == i.get_type(): return i(...)": the first variant
\* of the list with that tag, or "None" when the loop ends
RECURSIVE FirstOfTypeOrFirst(_, _)
FirstOfTypeOrFirst(classes, tag) ==
    IF classes = <<>> THEN "None"
    ELSE IF Len(classes) = 1 \/ get_type(Head(classes)) = tag THEN Head(classes)
    ELSE FirstOfTypeOrFirst(Tail(classes), tag)

RECURSIVE FirstOfType(_, _)
FirstOfType(classes, tag) ==
    IF classes = <<>> THEN "None"
    ELSE IF get_type(Head(classes)) = tag THEN Head(classes)
    ELSE FirstOfType(Tail(classes), tag)

\* what a registry function answers: the instance it returns, or the
\* UnknownBackend error it raises
Lookup(op, classes, what, tag) ==
    LET c == FirstOfType(classes, tag) IN
    IF c # "None"
    THEN [Call(op, tag, "ok") EXCEPT !.made = c]
    ELSE [Call(op, tag, "UnknownBackend") EXCEPT
             !.msg = <<what, "'", tag, "'">>]

\* create_definition(xml), tag being the targetEnv of xml
create_definition ==
    \E tag \in Tags :
        /\ last' = Lookup("create_definition", DefinitionClasses,
                          "unknown backend type ", tag)
        /\ log' = <<>>
        /\ res' = CheckResult
        /\ UNCHANGED <<state, sshPinged, sshPingedThisTime, storeKeysAttr, keys,
                       publicVpnKey, units, deployment>>

\* create_state(depl, type, name, id)
create_state ==
    \E tag \in Tags :
        /\ last' = Lookup("create_state", StateClasses,
                          "unknown resource type ", tag)
        /\ log' = <<>>
        /\ res' = CheckResult
        /\ UNCHANGED <<state, sshPinged, sshPingedThisTime, storeKeysAttr, keys,
                       publicVpnKey, units, deployment>>

-----------------------------------------------------------------------------
(* A deployment: two machines whose definitions set storeKeysOnMachine to  *)
(* false, one worker per machine.  A worker runs the operations of its     *)
(* machine one after the other; a key upload pass is run step by step, so  *)
(* that the passes of the two machines interleave.                         *)

\* the variables of the machine the other specifications examine alone
machine == << state, sshPinged, sshPingedThisTime, storeKeysAttr, keys,
              publicVpnKey, units, log, last, res >>

\* the second machine of the deployment
OtherName == "beta"

Names == {MachineName, OtherName}

\* one scratch file name for every machine of the deployment
TmpPathShared(name) == <<"/key-">>

\* line 196: tmp = self.depl.tempdir + "/key-" + self.name
TmpPath(name) == <<"/key-", name>>

\* opts['text'] of secret k of machine name
SecretText(name, k) == <<name, k>>

\* the names a definition of the deployment gives its secrets
SecretNames == {"secret"}

\* /run/keys of a machine that has just booted
EmptyTarget == [files |-> [k \in SecretNames |-> None], done |-> FALSE]

\* the steps of a key upload pass
IsWrite(e) == e.kind = "local" /\ e.cmd = <<"write tmp">>

IsRemove(e) == e.kind = "local" /\ e.cmd = <<"os.remove tmp">>

IsDelete(e) == e.kind = "run" /\ Head(Bare(e.cmd)) = "rm -f "

IsChown(e) == e.kind = "run" /\ Head(Bare(e.cmd)) = "chown "

IsTouch(e) == e.kind = "run" /\ Bare(e.cmd) = <<"touch /run/keys/done">>

\* lines 197 and 208: the scratch directory after step e of machine name
ScratchAfter(dir, name, e) ==
    IF IsWrite(e)
    THEN [dir EXCEPT ![TmpPath(name)] = Some(SecretText(name, e.arg))]
    ELSE IF IsRemove(e) THEN [dir EXCEPT ![TmpPath(name)] = None]
    ELSE dir

\* lines 200-209: /run/keys of machine name after its step e succeeded, dir
\* being the scratch directory the step reads
TargetAfter(t, dir, name, e) ==
    IF IsDelete(e) THEN [t EXCEPT !.files[e.arg] = None]
    ELSE IF e.kind = "upload"
    THEN [t EXCEPT !.files[e.arg] =
             Some([text |-> dir[TmpPath(name)][1], attrs |-> "default"])]
    ELSE IF IsChown(e)
    THEN [t EXCEPT !.files[e.arg] =
             IF @ = None THEN None ELSE Some([@[1] EXCEPT !.attrs = "configured"])]
    ELSE IF IsTouch(e) THEN [t EXCEPT !.done = TRUE]
    ELSE t

\* scp (line 201) and os.remove (line 208) fail when the scratch file is gone
LocalFileMissing(dir, name, e) ==
    (e.kind = "upload" \/ IsRemove(e)) /\ dir[TmpPath(name)] = None

\* no operation of the machine is running; op is the operation it last called
Idle(name) == instances[name].todo = <<>>

\* set_common_state of one machine of the deployment
worker_set_common_state ==
    \E n \in Names, ks \in SUBSET SecretNames :
        /\ Idle(n)
        /\ instances' = [instances EXCEPT ![n].keys = ks,
                                          ![n].op = "set_common_state"]
        /\ UNCHANGED <<machine, tempdir, targets>>

\* check() of one machine of the deployment
worker_check ==
    \E n \in Names, reachable \in BOOLEAN :
        /\ Idle(n)
        /\ instances' = [instances EXCEPT ![n] =
              IF reachable
              THEN [@ EXCEPT !.state = UP, !.sshPinged = TRUE, !.thisTime = TRUE,
                             !.op = "check"]
              ELSE [@ EXCEPT !.state = CheckFailedState(@), !.op = "check"]]
        /\ UNCHANGED <<machine, tempdir, targets>>

\* reboot() of one machine of the deployment, the command delivered: the
\* machine restarts with an empty /run/keys
worker_reboot ==
    \E n \in Names :
        /\ Idle(n)
        /\ instances' = [instances EXCEPT ![n].state = RebootState,
                                          ![n].op = "reboot"]
        /\ targets' = [targets EXCEPT ![n] = EmptyTarget]
        /\ UNCHANGED <<machine, tempdir>>

\* reboot_sync() of one machine of the deployment up to its send_keys()
worker_reboot_sync ==
    \E n \in Names :
    \E order \in Orders(instances[n].keys) :
        /\ Idle(n)
        /\ instances' = [instances EXCEPT ![n] =
              [@ EXCEPT !.state = UP, !.sshPinged = TRUE, !.thisTime = TRUE,
                        !.op = "reboot_sync",
                        !.todo = SendKeysSteps(UP, FALSE, order)]]
        /\ targets' = [targets EXCEPT ![n] = EmptyTarget]
        /\ UNCHANGED <<machine, tempdir>>

\* wait_for_ssh() of one machine of the deployment, when it waits
worker_wait_for_ssh ==
    \E n \in Names, recheck \in BOOLEAN :
        /\ Idle(n)
        /\ ~WaitSkipped(instances[n].sshPinged, instances[n].thisTime, recheck)
        /\ instances' = [instances EXCEPT ![n] =
              [@ EXCEPT !.state = WaitState(@), !.sshPinged = TRUE,
                        !.thisTime = TRUE, !.op = "wait_for_ssh"]]
        /\ UNCHANGED <<machine, tempdir, targets>>

\* send_keys() of one machine of the deployment is called
worker_send_keys ==
    \E n \in Names :
    \E order \in Orders(instances[n].keys) :
        /\ Idle(n)
        /\ instances' = [instances EXCEPT
              ![n].op = "send_keys",
              ![n].todo = SendKeysSteps(instances[n].state, FALSE, order)]
        /\ UNCHANGED <<machine, tempdir, targets>>

\* the next step of a running pass succeeds
worker_step ==
    \E n \in Names :
        /\ ~Idle(n)
        /\ ~LocalFileMissing(tempdir, n, Head(instances[n].todo))
        /\ tempdir' = ScratchAfter(tempdir, n, Head(instances[n].todo))
        /\ targets' = [targets EXCEPT ![n] =
              TargetAfter(@, tempdir, n, Head(instances[n].todo))]
        /\ instances' = [instances EXCEPT ![n].todo = Tail(@)]
        /\ UNCHANGED machine

\* the next step of a running pass raises: the pass ends there
worker_step_raises ==
    \E n \in Names :
        /\ ~Idle(n)
        /\ \/ Exceptions(Head(instances[n].todo)) # {}
           \/ LocalFileMissing(tempdir, n, Head(instances[n].todo))
        /\ instances' = [instances EXCEPT ![n].todo = <<>>]
        /\ UNCHANGED <<machine, tempdir, targets>>

\* a deployment in which no operation has run yet
InitDeployment ==
    /\ instances = [n \in Names |->
                      [state |-> UP, sshPinged |-> FALSE, thisTime |-> FALSE,
                       keys |-> {}, op |-> "none", todo |-> <<>>]]
    /\ tempdir = [p \in {TmpPath(n) : n \in Names} |-> None]
    /\ targets = [n \in Names |-> EmptyTarget]

-----------------------------------------------------------------------------
(* Specifications *)

\* a state object over a row in which only the lifecycle state has been
\* written (by the backend); every other attribute reads its default
Init ==
    /\ state \in States
    /\ sshPinged = FALSE
    /\ sshPingedThisTime = FALSE
    /\ storeKeysAttr = "unset"
    /\ keys = {}
    /\ publicVpnKey = "None"
    /\ units \in SampleOutputs
    /\ log = <<>>
    /\ last = Call("none", "", "ok")
    /\ res = CheckResult
    /\ InitDeployment

Next ==
    \/ init
    \/ set_common_state
    \/ unsupported
    \/ start
    \/ check
    \/ reboot
    \/ reboot_sync
    \/ send_keys
    \/ wait_for_ssh
    \/ switch_to_configuration
    \/ copy_closure_to
    \/ generate_vpn_key

Spec == Init /\ [][Next]_vars

\* the backend registry alone: its two functions read nothing of a machine
NextRegistry == create_definition \/ create_state

SpecRegistry == Init /\ [][NextRegistry]_vars

\* the health check alone, over every systemctl output within the bounds
InitParse ==
    /\ state = UP
    /\ sshPinged = TRUE
    /\ sshPingedThisTime = FALSE
    /\ storeKeysAttr = "unset"
    /\ keys = {}
    /\ publicVpnKey = "None"
    /\ units \in AllOutputs
    /\ log = <<>>
    /\ last = Call("none", "", "ok")
    /\ res = CheckResult
    /\ InitDeployment

NextParse == check

SpecParse == InitParse /\ [][NextParse]_vars

\* the key upload passes alone, over every set of up to MaxPassKeys secrets
\* and every value of the storeKeysOnMachine row
PassKeyNames == {ToString(n) : n \in 1..MaxPassKeys}

InitKeys ==
    /\ state \in States
    /\ sshPinged = FALSE
    /\ sshPingedThisTime = FALSE
    /\ storeKeysAttr \in {"unset", "true", "false"}
    /\ keys \in SUBSET PassKeyNames
    /\ publicVpnKey = "None"
    /\ units \in SampleOutputs
    /\ log = <<>>
    /\ last = Call("none", "", "ok")
    /\ res = CheckResult
    /\ InitDeployment

NextKeys == send_keys \/ reboot_sync

SpecKeys == InitKeys /\ [][NextKeys]_vars

\* the deployment alone
InitWorkers == Init /\ state = UP

NextWorkers ==
    \/ worker_set_common_state
    \/ worker_check
    \/ worker_reboot
    \/ worker_reboot_sync
    \/ worker_wait_for_ssh
    \/ worker_send_keys
    \/ worker_step
    \/ worker_step_raises

SpecWorkers == InitWorkers /\ [][NextWorkers]_vars

-----------------------------------------------------------------------------
(* Properties *)

QueryFailed(e) == e.status \in {"SSHConnectionFailed", "SSHCommandFailed"}

\* the steps of kind k in the log
Steps(k) == {i \in 1..Len(log) : log[i].kind = k}

\* a port wait for the port to be open / closed
PortWait(i, how) == log[i].kind = "port" /\ log[i].arg = how

\* the first command of a key upload pass
PassStart(i) ==
    /\ log[i].kind = "run"
    /\ log[i].cmd[Len(log[i].cmd)] = " && chown root:keys /run/keys"

\* C1: a check() whose load-average query fails leaves every lifecycle state
\* other than UP as it was, and a check() moves a machine to UNREACHABLE only
\* when the query failed and the state at the call was UP.
C1_CheckDemotesOnlyFromUp ==
    last.op = "check" =>
        /\ (QueryFailed(log[1]) /\ last.pre.state # UP) => state = last.pre.state
        /\ (state = UNREACHABLE /\ last.pre.state # UNREACHABLE)
               => (last.pre.state = UP /\ QueryFailed(log[1]))

C1_Witness ==
    /\ last.op = "check"
    /\ QueryFailed(log[1])
    /\ last.pre.state = STARTING
    /\ state = STARTING

\* C2: when reboot_sync() returns, the machine is UP and sshPinged is set,
\* and if storeKeysOnMachine is false exactly one key upload pass was
\* started, after the SSH port was seen closed and then open again.
C2_RebootSyncEndsUp ==
    (last.op = "reboot_sync" /\ last.outcome = "ok") =>
        /\ state = UP
        /\ sshPinged
        /\ ~last.pre.store =>
              /\ Cardinality({i \in 1..Len(log) : PassStart(i)}) = 1
              /\ \E i, j, k \in 1..Len(log) :
                    /\ i < j /\ j < k
                    /\ PortWait(i, "closed")
                    /\ PortWait(j, "open")
                    /\ PassStart(k)

C2_Witness ==
    /\ last.op = "reboot_sync"
    /\ last.outcome = "ok"
    /\ last.pre.state = RESCUE
    /\ ~last.pre.store
    /\ keys # {}
    /\ state = UP

\* C3: a send_keys() called in RESCUE, or with storeKeysOnMachine true (the
\* value a row that never set it reads), runs no remote command and uploads
\* no file, whatever secrets are configured.
C3_SendKeysSkipped ==
    (last.op = "send_keys" /\ (last.pre.state = RESCUE \/ last.pre.store)) =>
        /\ Steps("run") = {}
        /\ Steps("upload") = {}

C3_Witness ==
    /\ last.op = "send_keys"
    /\ last.pre.state = RESCUE
    /\ ~last.pre.store
    /\ keys # {}
    /\ log = <<>>

\* number of leading locale prefixes of a command text
RECURSIVE PrefixCount(_)
PrefixCount(cmd) ==
    IF cmd # <<>> /\ Head(cmd) = LocalePrefix
    THEN 1 + PrefixCount(Tail(cmd))
    ELSE 0

\* C4: every remote command sent while the machine is in RESCUE carries the
\* locale-clearing prefix exactly once.
C4_RescuePrefixOnce ==
    \A i \in Steps("run") :
        log[i].st = RESCUE => PrefixCount(log[i].cmd) = 1

\* C5: copy_closure_to with the fast-connection hint false sends the
\* substituter fetch before any closure copy and copies with --gzip; with the
\* hint true it sends no fetch and copies without --gzip.
C5_CopyClosureOrder ==
    last.op = "copy_closure_to" =>
        IF last.arg = "slow"
        THEN /\ log[1].kind = "run"
             /\ \A i \in Steps("copy") : i > 1 /\ log[i].arg = "--gzip"
             /\ last.outcome = "ok" => Steps("copy") # {}
        ELSE /\ Steps("run") = {}
             /\ Len(log) = 1
             /\ log[1].kind = "copy"
             /\ log[1].arg = ""

C5_Witness ==
    /\ last.op = "copy_closure_to"
    /\ last.arg = "slow"
    /\ last.outcome = "ok"
    /\ Len(log) = 2

\* the list a registry function searches
ClassesOf(op) ==
    IF op = "create_definition" THEN DefinitionClasses ELSE StateClasses

\* C6: create_definition and create_state return an instance of the variant
\* whose type tag is the requested one ("ec2" gives the EC2 variant) for
\* every tag of their list, and for every other tag raise UnknownBackend with
\* a message naming the tag and make no instance.
C6_RegistryLookup ==
    last.op \in {"create_definition", "create_state"} =>
        IF \E c \in Range(ClassesOf(last.op)) : get_type(c) = last.arg
        THEN /\ last.outcome = "ok"
             /\ last.made \in Range(ClassesOf(last.op))
             /\ get_type(last.made) = last.arg
             /\ last.arg = "ec2" => last.made \in {"EC2Definition", "EC2State"}
        ELSE /\ last.outcome = "UnknownBackend"
             /\ last.made = "None"
             /\ \E i \in 1..Len(last.msg) : last.msg[i] = last.arg

C6_Witness ==
    /\ last.op = "create_state"
    /\ last.arg = "ec2"
    /\ last.made = "EC2State"

\* the unit name of a line: the text before its first space
UnitOf(l) == SubSeq(l, 1, FirstIndex(l, SP) - 1)

\* a line carries token w in one of its columns after the unit name
Carries(l, w) ==
    \E j \in (FirstIndex(l, SP) + 1)..Len(l) : l[j] = w /\ l[j-1] = SP

IsMountUnit(name) ==
    Len(name) >= 3 /\ name[Len(name)] = "mount" /\ name[Len(name) - 1] = DOT

\* the unit lines of the output
LinesOf(text) ==
    {l \in Range(SplitLines(text, <<>>)) : FirstIndex(l, SP) > 1}

\* C7: each status line is classified on its own: "failed" puts the unit in
\* failedUnits, "activating" in inProgressUnits, "inactive" on a .mount unit
\* in failedUnits unless the name starts with sys- or dev-; nothing else is
\* reported.
C7_UnitClassification ==
    (last.op = "check" /\ res.failed_units # None) =>
        /\ Range(res.failed_units[1]) =
              {UnitOf(l) : l \in {m \in LinesOf(units) :
                    \/ Carries(m, "failed")
                    \/ /\ IsMountUnit(UnitOf(m))
                       /\ Carries(m, "inactive")
                       /\ ~ReservedPrefix(UnitOf(m))}}
        /\ Range(res.in_progress_units[1]) =
              {UnitOf(l) : l \in {m \in LinesOf(units) : Carries(m, "activating")}}

\* C8 as stated: a machine becomes UP only through check() or reboot_sync().
C8_UpOnlyFromCheckOrRebootSync ==
    (state = UP /\ last.pre.state # UP) => last.op \in {"check", "reboot_sync"}

\* C8, amended: a machine becomes UP only through a check() whose
\* load-average query succeeded, a reboot_sync() that passed its port waits,
\* or a wait_for_ssh() that waited for the port on a machine not in RESCUE.
C8_UpOnlyFromCheckRebootSyncOrWait ==
    (state = UP /\ last.pre.state # UP) =>
        \/ last.op = "check" /\ res.is_reachable = Some(TRUE)
        \/ last.op = "reboot_sync" /\ \E i \in Steps("port") : PortWait(i, "open")
        \/ /\ last.op = "wait_for_ssh"
           /\ last.pre.state # RESCUE
           /\ \E i \in Steps("port") : PortWait(i, "open")

C8_Witness ==
    /\ last.op = "wait_for_ssh"
    /\ last.pre.state = STARTING
    /\ state = UP

\* wait_for_ssh did nothing: no port wait, no attribute changed
WaitWasNoOp ==
    /\ log = <<>>
    /\ state = last.pre.state
    /\ sshPinged = last.pre.sshPinged
    /\ sshPingedThisTime = last.pre.thisTime

\* wait_for_ssh waited for the SSH port to accept connections
WaitWaited == Len(log) = 1 /\ PortWait(1, "open")

\* C9 as stated: wait_for_ssh is a no-op exactly when reachability was
\* confirmed during the current operation and no recheck is forced, and
\* waits for the port otherwise.
C9_NoOpIffConfirmedThisTime ==
    last.op = "wait_for_ssh" =>
        IF last.pre.thisTime /\ last.arg = "False"
        THEN WaitWasNoOp
        ELSE WaitWaited

\* C9, amended: wait_for_ssh is a no-op exactly when sshPinged is set and
\* either no recheck is forced or reachability was confirmed during the
\* current operation; otherwise it waits for the port.
C9_NoOpIffPinged ==
    last.op = "wait_for_ssh" =>
        IF last.pre.sshPinged /\ (last.arg = "False" \/ last.pre.thisTime)
        THEN WaitWasNoOp
        ELSE WaitWaited

C9_Witness ==
    /\ last.op = "wait_for_ssh"
    /\ last.arg = "True"
    /\ last.pre.sshPinged
    /\ ~last.pre.thisTime
    /\ WaitWaited

\* C10 as stated: whenever wait_for_ssh returns, the machine is in RESCUE if
\* it was in RESCUE at the call and UP otherwise.
C10_WaitEndsUpOrRescue ==
    (last.op = "wait_for_ssh" /\ last.outcome = "ok") =>
        state = IF last.pre.state = RESCUE THEN RESCUE ELSE UP

\* C10, amended: a wait_for_ssh that waited for the port leaves the machine
\* in RESCUE if it was in RESCUE at the call and UP otherwise; one that
\* returned without waiting leaves the lifecycle state as it was; neither
\* overwrites RESCUE.
C10_WaitedEndsUpOrRescue ==
    (last.op = "wait_for_ssh" /\ last.outcome = "ok") =>
        /\ WaitWaited => state = IF last.pre.state = RESCUE THEN RESCUE ELSE UP
        /\ ~WaitWaited => state = last.pre.state
        /\ last.pre.state = RESCUE => state = RESCUE

C10_Witness ==
    /\ last.op = "wait_for_ssh"
    /\ last.pre.state = RESCUE
    /\ WaitWaited
    /\ state = RESCUE

\* C11: reboot() sends exactly one remote command, the detached delayed
\* reboot when the machine was in RESCUE at the call and the graceful
\* systemctl reboot in every other state; once the command was delivered,
\* with a zero or a non-zero exit status, reboot() returns with the machine
\* in STARTING and has reset the SSH connection cache after that assignment.
C11_RebootCommandThenStarting ==
    last.op = "reboot" =>
        /\ Steps("run") = {1}
        /\ Bare(log[1].cmd) = IF last.pre.state = RESCUE
                              THEN <<"(sleep 2; reboot) &">>
                              ELSE <<"systemctl reboot">>
        /\ log[1].status \in {"ok", "nonzero"} =>
              /\ last.outcome = "ok"
              /\ state = STARTING
              /\ Len(log) = 2
              /\ log[2].kind = "reset"
              /\ log[2].st = STARTING

C11_Witness ==
    /\ last.op = "reboot"
    /\ last.pre.state = RESCUE
    /\ log[1].status = "nonzero"
    /\ state = STARTING

\* C12: stop, backup, restore, remove_backup and reboot_rescue each return
\* normally after exactly one warning whose text names the machine, send no
\* remote command and leave the lifecycle state, sshPinged, the secrets,
\* storeKeysOnMachine and publicVpnKey as they were.
C12_UnsupportedWarnsOnly ==
    last.op \in {"stop", "backup", "restore", "remove_backup", "reboot_rescue"} =>
        /\ last.outcome = "ok"
        /\ Len(log) = 1
        /\ log[1].kind = "warn"
        /\ \E i \in 1..Len(log[1].cmd) : log[1].cmd[i] = MachineName
        /\ Steps("run") = {}
        /\ Pre = last.pre

C12_Witness ==
    /\ last.op = "reboot_rescue"
    /\ last.pre.state = UP
    /\ last.pre.sshPinged
    /\ Len(log) = 1
    /\ log[1].kind = "warn"

\* C13: check() never raises a connection failure or a command failure:
\* whichever of its two remote queries fails, it returns normally.
C13_CheckNeverPropagates ==
    last.op = "check" =>
        last.outcome \notin {"SSHConnectionFailed", "SSHCommandFailed"}

\* C14: when check() returns, a result reporting the machine reachable goes
\* with lifecycle state UP, sshPinged set and the confirmed-this-time flag
\* set; a result reporting it unreachable goes with a lifecycle state other
\* than UP, sshPinged and the flag as they were at the call, and load,
\* failed_units and in_progress_units never written.
C14_CheckResultAgreesWithState ==
    (last.op = "check" /\ last.outcome = "ok") =>
        /\ res.is_reachable \in {Some(TRUE), Some(FALSE)}
        /\ res.is_reachable = Some(TRUE) =>
              /\ state = UP
              /\ sshPinged
              /\ sshPingedThisTime
        /\ res.is_reachable = Some(FALSE) =>
              /\ state # UP
              /\ sshPinged = last.pre.sshPinged
              /\ sshPingedThisTime = last.pre.thisTime
              /\ res.load = None
              /\ res.failed_units = None
              /\ res.in_progress_units = None

C14_Witness ==
    /\ last.op = "check"
    /\ last.outcome = "ok"
    /\ res.is_reachable = Some(FALSE)
    /\ last.pre.state = UP
    /\ last.pre.sshPinged
    /\ state = UNREACHABLE

\* the upload of the private key among the steps of generate_vpn_key
VpnUploads ==
    {i \in Steps("run") : Bare(log[i].cmd) = Bare(VpnKeyUpload(UP).cmd)}

\* C17: a generate_vpn_key() whose upload exits non-zero raises and leaves
\* publicVpnKey as it was; publicVpnKey changes only when the upload
\* succeeded, and then to a new key; and a call that finds publicVpnKey set
\* and the key file on the target creates no key pair and uploads nothing.
C17_VpnKeySetOnlyAfterUpload ==
    last.op = "generate_vpn_key" =>
        /\ (\E i \in VpnUploads : log[i].status = "nonzero") =>
              /\ last.outcome = "Exception"
              /\ publicVpnKey = last.pre.vpn
        /\ publicVpnKey # last.pre.vpn =>
              /\ publicVpnKey # "None"
              /\ last.outcome = "ok"
              /\ \E i \in VpnUploads : log[i].status = "ok"
        /\ (last.pre.vpn # "None" /\ log[1].status = "ok") =>
              /\ Steps("local") = {}
              /\ VpnUploads = {}
              /\ Len(log) = 1
              /\ publicVpnKey = last.pre.vpn

C17_Witness ==
    /\ last.op = "generate_vpn_key"
    /\ last.pre.vpn = "key1"
    /\ \E i \in VpnUploads : log[i].status = "nonzero"
    /\ last.outcome = "Exception"
    /\ publicVpnKey = "key1"

\* C19: in a copy_closure_to() over a connection that is not really fast, a
\* substituter fetch that exits non-zero is followed by the closure copy, and
\* the call returns if the copy succeeds; a closure copy that fails makes the
\* call raise the copy's failure.
C19_FetchExitIgnored ==
    (last.op = "copy_closure_to" /\ last.arg = "slow") =>
        /\ log[1].status = "nonzero" =>
              /\ Len(log) = 2
              /\ log[2].kind = "copy"
              /\ log[2].status = "ok" => last.outcome = "ok"
        /\ \A i \in Steps("copy") :
              log[i].status # "ok" =>
                  /\ log[i].status = "CommandFailed"
                  /\ last.outcome = "CommandFailed"

C19_Witness ==
    /\ last.op = "copy_closure_to"
    /\ last.arg = "slow"
    /\ log[1].status = "nonzero"
    /\ Len(log) = 2
    /\ log[2].kind = "copy"
    /\ last.outcome = "ok"

\* the commands and uploads of the log after step p, in order
RemoteAfter(p) ==
    SelectSeq(SubSeq(log, p + 1, Len(log)),
              LAMBDA e : e.kind \in {"run", "upload"})

\* the command sets the ownership before the permissions
ChownThenChmod(e) ==
    \E a, b \in 1..Len(e.cmd) :
        a < b /\ e.cmd[a] = "chown " /\ e.cmd[b] = "chmod "

\* C15: a key upload pass that is not skipped starts with the command that
\* creates /run/keys; after it the remote steps come in groups of three, one
\* group per configured secret and no secret twice: the deletion of the
\* remote file, the upload, then one command setting ownership and after it
\* permissions, all three for the same secret; /run/keys/done is touched only
\* as the step after the last group, when every step before it succeeded.
C15_PassOrder ==
    last.op \in {"send_keys", "reboot_sync"} =>
        /\ (last.op = "send_keys" /\ last.pre.state # RESCUE /\ ~last.pre.store)
              => (Len(log) >= 1 /\ PassStart(1))
        /\ \A p \in 1..Len(log) :
              PassStart(p) =>
                LET r == RemoteAfter(p)
                    n == Cardinality(keys)
                IN  /\ \A i \in 1..(p - 1) :
                          /\ log[i].kind # "upload"
                          /\ ~IsDelete(log[i]) /\ ~IsChown(log[i]) /\ ~IsTouch(log[i])
                    /\ Len(r) <= 3 * n + 1
                    /\ \A j \in 1..Len(r) :
                          CASE j = 3 * n + 1 -> IsTouch(r[j])
                            [] j <= 3 * n /\ j % 3 = 1 ->
                                  /\ IsDelete(r[j])
                                  /\ r[j].arg \in keys
                                  /\ \A i \in 1..(j - 1) :
                                        IsDelete(r[i]) => r[i].arg # r[j].arg
                            [] j <= 3 * n /\ j % 3 = 2 ->
                                  r[j].kind = "upload" /\ r[j].arg = r[j-1].arg
                            [] OTHER ->
                                  /\ IsChown(r[j])
                                  /\ ChownThenChmod(r[j])
                                  /\ r[j].arg = r[j-1].arg
                    /\ \A j \in 1..Len(r) :
                          IsTouch(r[j]) => \A i \in 1..(j - 1) : r[i].status = "ok"
                    /\ last.outcome = "ok" => Len(r) = 3 * n + 1

C15_Witness ==
    /\ last.op = "send_keys"
    /\ last.outcome = "ok"
    /\ Cardinality(keys) = 2
    /\ Len(log) = 12
    /\ PassStart(1)
    /\ Len(RemoteAfter(1)) = 7
    /\ IsTouch(log[Len(log)])

\* C16: when send_keys() or the pass of reboot_sync() has ended, by
\* returning or by raising, every scratch file the pass wrote has been
\* removed again.
C16_NoScratchFileLeft ==
    last.op \in {"send_keys", "reboot_sync"} =>
        \A i \in 1..Len(log) :
            IsWrite(log[i]) => \E j \in (i + 1)..Len(log) : IsRemove(log[j])

\* an operation changed what belongs to machine n
Changed(n) == instances'[n] # instances[n] \/ targets'[n] # targets[n]

\* C18: in a deployment of two machines with different names whose
\* operations interleave, every step changes the attributes and the target of
\* at most one machine, the one whose worker took it; a pass about to upload
\* or to remove its scratch file finds the file there, holding the text of
\* its own machine's secret; and every file on a target holds the text of
\* the secret of that name of that machine.
C18_WorkersIndependent ==
    [][ /\ \A n, m \in Names : (Changed(n) /\ Changed(m)) => n = m
        /\ \A n \in Names :
              ~Idle(n) =>
                  LET e == Head(instances[n].todo) IN
                  /\ ~LocalFileMissing(tempdir, n, e)
                  /\ e.kind = "upload" =>
                        tempdir[TmpPath(n)] = Some(SecretText(n, e.arg))
        /\ \A n \in Names, k \in SecretNames :
              targets'[n].files[k] # None =>
                  targets'[n].files[k][1].text = SecretText(n, k) ]_vars

C18_Witness ==
    /\ \A n \in Names :
          /\ ~Idle(n)
          /\ instances[n].op = "send_keys"
          /\ tempdir[TmpPath(n)] = Some(SecretText(n, "secret"))
    /\ targets[OtherName].files["secret"] # None
    /\ Head(instances[MachineName].todo).kind = "upload"

\* C20: after a send_keys() pass of a machine has ended, if /run/keys/done
\* exists on its target then every secret configured for the machine exists
\* there with its configured owner, group and mode.
C20_SentinelMeansAllSecrets ==
    \A n \in Names :
        (Idle(n) /\ instances[n].op = "send_keys" /\ targets[n].done) =>
            \A k \in instances[n].keys :
                /\ targets[n].files[k] # None
                /\ targets[n].files[k][1].attrs = "configured"

=============================================================================
